---- MODULE Spec2Model ----
(***************************************************************************)
(* Model of lib/TabDatabase.js: the lazily opened, cached Sqlite           *)
(* connection of TabDatabase, its schema initialisation (_dbInit,          *)
(* _dbCreate, _dbMigrate) and the profile-change-teardown observer.        *)
(*                                                                         *)
(* JavaScript runs every handler to completion on the main thread, so one  *)
(* action is one main-thread turn (the code between two yields of the      *)
(* Task) or one step of the storage engine (the connection's asynchronous  *)
(* execution thread, which runs the statements of a connection in the      *)
(* order they were submitted).                                             *)
(***************************************************************************)
EXTENDS Naturals, FiniteSets, Sequences, TLC

\* ------------------------------------------------------------------ bounds
\* number of reads of DBConnectionPromise
MaxCallers == 3
\* number of Task.spawn invocations the model has room for
MaxTasks == 2
\* number of profile-change-teardown notifications
MaxTeardowns == 2
\* largest schema version a store may hold initially
MaxVersion == 2

Callers == 1..MaxCallers
Tasks == 1..MaxTasks

\* ------------------------------------------------------- program constants
DB_VERSION == 1

\* SCHEMA.tables, in property order
SchemaTables == <<"squirrel_tabs", "squirrel_sessions", "squirrel_sessions_tabs">>
\* SCHEMA.indices, in property order
SchemaIndices ==
  << [name |-> "squirrel_tabs_timestamp_index", table |-> "squirrel_tabs"],
     [name |-> "squirrel_sessions_timestamp_index", table |-> "squirrel_sessions"],
     [name |-> "squirrel_sessions_tabs_tab_index", table |-> "squirrel_sessions_tabs"],
     [name |-> "squirrel_sessions_tabs_session_index", table |-> "squirrel_sessions_tabs"] >>
SCHEMA == [tables |-> SchemaTables, indices |-> SchemaIndices]

NumTables == Len(SCHEMA.tables)
NumIndices == Len(SCHEMA.indices)
\* the promises array of _dbCreate: one entry per table, one per index, and
\* the setSchemaVersion call
NumStatements == NumTables + NumIndices + 1
StampIdx == NumStatements
Statements == 1..NumStatements

IsTableStmt(i) == i <= NumTables
IsIndexStmt(i) == i > NumTables /\ i <= NumTables + NumIndices
\* the table or index the i-th statement of _dbCreate creates
ObjectOf(i) == IF IsTableStmt(i) THEN SCHEMA.tables[i]
               ELSE SCHEMA.indices[i - NumTables].name

TableNames == {SCHEMA.tables[i] : i \in 1..NumTables}
IndexNames == {SCHEMA.indices[i].name : i \in 1..NumIndices}
AllObjects == TableNames \cup IndexNames

\* ------------------------------------------------------------------- state
VARIABLES
  _dbConnectionPromise, \* TabDatabase._dbConnectionPromise: 0 is null, else a task id
  nTasks,               \* number of Task.spawn calls made so far
  pc,                   \* per task: where the generator is suspended
  promiseState,         \* per task: state of the promise Task.spawn returned
  promiseValue,         \* per task: 0, or the connection the promise resolved to
  promiseError,         \* per task: the rejection reason
  pendingEx,            \* per task: the exception caught at line 109
  connState,            \* per connection (one per task): none/open/closing/closed/closeFailed
  closeCalls,           \* per connection: number of connection.close() calls
  isMigrated,           \* per connection: connection.isMigrated: "unset", "true" or "false"
  initResult,           \* per task: the value _dbInit's promise resolved to
  versionRead,          \* per task: the value getSchemaVersion returned, or NoVersion
  stmt,                 \* per connection and statement: idle/queued/ok/err/cancelled
  delivered,            \* per connection: completions handed to the main thread so far
  observers,            \* connections whose DBCloseCallback is registered
  userVersion,          \* the store's PRAGMA user_version
  objects,              \* tables and indices that exist in the store
  holder,               \* per caller: the promise its DBConnectionPromise read returned
  callPhase,            \* per caller: what its read of DBConnectionPromise found
  teardowns,            \* notifications fired so far
  teardownPhases,       \* the acquisition states in which notifications fired
  openCalls,            \* Sqlite.openConnection calls so far
  initRuns,             \* _dbInit calls so far
  initialVersion,       \* the store's user_version at start
  migrateFrom,          \* per task: the version _dbMigrate was called with, or NoVersion
  migrationFlag         \* what the last getDbMigrationPromise() call produced

vars == <<_dbConnectionPromise, nTasks, pc, promiseState, promiseValue,
          promiseError, pendingEx, connState, closeCalls, isMigrated,
          initResult, versionRead, stmt, delivered, observers, userVersion,
          objects, holder, callPhase, teardowns, teardownPhases,
          openCalls, initRuns, initialVersion, migrateFrom, migrationFlag>>

NoVersion == MaxVersion + 10

InitialObjects(v) == IF v = 0 THEN {{}, {SCHEMA.tables[1]}} ELSE {AllObjects}

Init ==
  /\ _dbConnectionPromise = 0
  /\ nTasks = 0
  /\ pc = [t \in Tasks |-> "unspawned"]
  /\ promiseState = [t \in Tasks |-> "none"]
  /\ promiseValue = [t \in Tasks |-> 0]
  /\ promiseError = [t \in Tasks |-> "none"]
  /\ pendingEx = [t \in Tasks |-> "none"]
  /\ connState = [t \in Tasks |-> "none"]
  /\ closeCalls = [t \in Tasks |-> 0]
  /\ isMigrated = [t \in Tasks |-> "unset"]
  /\ initResult = [t \in Tasks |-> "unset"]
  /\ versionRead = [t \in Tasks |-> NoVersion]
  /\ stmt = [t \in Tasks |-> [i \in Statements |-> "idle"]]
  /\ delivered = [t \in Tasks |-> 0]
  /\ observers = {}
  /\ userVersion \in 0..MaxVersion
  /\ objects \in InitialObjects(userVersion)
  /\ holder = [c \in Callers |-> 0]
  /\ callPhase = [c \in Callers |-> "none"]
  /\ teardowns = 0
  /\ teardownPhases = {}
  /\ openCalls = 0
  /\ initRuns = 0
  /\ initialVersion = userVersion
  /\ migrateFrom = [t \in Tasks |-> NoVersion]
  /\ migrationFlag = "none"


\* ---------------------------------------------------------------- helpers
AcquisitionState ==
  IF _dbConnectionPromise = 0 THEN "Unstarted"
  ELSE CASE promiseState[_dbConnectionPromise] = "pending"  -> "Pending"
         [] promiseState[_dbConnectionPromise] = "resolved" -> "Ready"
         [] promiseState[_dbConnectionPromise] = "rejected" -> "Failed"
         [] OTHER -> "Unstarted"

\* connection.close(): counts the call; an open connection starts closing
Close(t) ==
  /\ closeCalls' = [closeCalls EXCEPT ![t] = @ + 1]
  /\ connState' = [connState EXCEPT ![t] = IF @ = "open" THEN "closing" ELSE @]

\* _dbInit whose first test is lost: version 0 is handed to _dbMigrate
_dbInit_migrateZero(version) ==
  IF version # DB_VERSION THEN "migrate" ELSE "noop"

\* _dbInit comparing against the wrong version number
_dbInit_offByOne(version) ==
  IF version = 0 THEN "create"
  ELSE IF version # DB_VERSION + 1 THEN "migrate"
  ELSE "noop"

\* _dbInit without the test of line 139
_dbInit_noVersionTest(version) ==
  IF version = 0 THEN "create" ELSE "migrate"

\* the branch _dbInit takes for a stored version
_dbInit(version) ==
  IF version = 0 THEN "create"
  ELSE IF version # DB_VERSION THEN "migrate"
  ELSE "noop"

\* _dbCreate without line 170
_dbCreate_noStamp == Statements \ {StampIdx}

\* the statements _dbCreate pushes onto its promises array
_dbCreate == Statements

\* _dbMigrate resolves at once and executes nothing
_dbMigrate == {}

Issued(st) == {i \in Statements : st[i] # "idle"}

\* a combinator that settles with the first completion instead of all
PromisedArray_first(st, d) ==
  IF \E i \in Issued(st) : i <= d /\ st[i] \in {"err", "cancelled"}
    THEN "rejected"
  ELSE IF \E i \in Issued(st) : i <= d THEN "resolved"
  ELSE "pending"

\* Promise.promised(Array)(promises): the array is flattened into the
\* arguments and reduced left to right, so the result settles when the
\* completions delivered so far contain a failure, or cover every promise
PromisedArray(st, d) ==
  IF \E i \in Issued(st) : i <= d /\ st[i] \in {"err", "cancelled"}
    THEN "rejected"
  ELSE IF \A i \in Issued(st) : i <= d THEN "resolved"
  ELSE "pending"

\* a catch block that calls close() without the yield and rethrows at once
CatchClose_noAwait(t, ex) ==
  /\ pendingEx' = [pendingEx EXCEPT ![t] = ex]
  /\ pc' = [pc EXCEPT ![t] = "done"]
  /\ Close(t)
  /\ promiseState' = [promiseState EXCEPT ![t] = "rejected"]
  /\ promiseError' = [promiseError EXCEPT ![t] = ex]

\* a catch block that rethrows without closing the connection
CatchClose_rethrowOnly(t, ex) ==
  /\ pendingEx' = [pendingEx EXCEPT ![t] = ex]
  /\ pc' = [pc EXCEPT ![t] = "done"]
  /\ promiseState' = [promiseState EXCEPT ![t] = "rejected"]
  /\ promiseError' = [promiseError EXCEPT ![t] = ex]
  /\ UNCHANGED <<closeCalls, connState>>

\* lines 109-110: the catch block keeps ex and awaits connection.close()
CatchClose(t, ex) ==
  /\ pendingEx' = [pendingEx EXCEPT ![t] = ex]
  /\ pc' = [pc EXCEPT ![t] = "close"]
  /\ Close(t)
  /\ UNCHANGED <<promiseState, promiseError>>

\* DBCloseCallback without line 116
RemoveObserver_keep(obs, fired) == obs

\* the observer list after DBCloseCallback ran for the connections in fired
RemoveObserver(obs, fired) == obs \ fired

\* ---------------------------------------------------------------- actions
\* lines 96-104: Task.spawn runs the generator up to the first yield
_openDatabaseConnection(t) ==
  /\ pc' = [pc EXCEPT ![t] = "openConnection"]
  /\ promiseState' = [promiseState EXCEPT ![t] = "pending"]
  /\ openCalls' = openCalls + 1
  /\ nTasks' = t

\* callers are numbered in the order of their reads of DBConnectionPromise
IsNextCaller(c) ==
  /\ holder[c] = 0
  /\ \A d \in Callers : d < c => holder[d] # 0

\* what a reader of DBConnectionPromise finds: the acquisition state, or
\* "TornDown" when the cached connection has already been closed by teardown
CallPhase ==
  IF AcquisitionState = "Ready" /\ closeCalls[_dbConnectionPromise] > 0
    THEN "TornDown"
  ELSE AcquisitionState

\* a getter that opens again when the cached promise was rejected
DBConnectionPromise_retry(c) ==
  /\ IsNextCaller(c)
  /\ IF _dbConnectionPromise = 0 \/ AcquisitionState = "Failed"
       THEN /\ nTasks < MaxTasks
            /\ _openDatabaseConnection(nTasks + 1)
            /\ _dbConnectionPromise' = nTasks + 1
            /\ holder' = [holder EXCEPT ![c] = nTasks + 1]
       ELSE /\ holder' = [holder EXCEPT ![c] = _dbConnectionPromise]
            /\ UNCHANGED <<_dbConnectionPromise, pc, promiseState, openCalls, nTasks>>
  /\ callPhase' = [callPhase EXCEPT ![c] = CallPhase]
  /\ UNCHANGED <<promiseValue, promiseError, pendingEx, connState, closeCalls,
                 isMigrated, initResult, versionRead, stmt, delivered,
                 observers, userVersion, objects, teardowns,
                 teardownPhases, initRuns, initialVersion, migrateFrom,
                 migrationFlag>>

\* the getter without the null test of line 73
DBConnectionPromise_uncached(c) ==
  /\ IsNextCaller(c)
  /\ nTasks < MaxTasks
  /\ _openDatabaseConnection(nTasks + 1)
  /\ _dbConnectionPromise' = nTasks + 1
  /\ holder' = [holder EXCEPT ![c] = nTasks + 1]
  /\ callPhase' = [callPhase EXCEPT ![c] = CallPhase]
  /\ UNCHANGED <<promiseValue, promiseError, pendingEx, connState, closeCalls,
                 isMigrated, initResult, versionRead, stmt, delivered,
                 observers, userVersion, objects, teardowns,
                 teardownPhases, initRuns, initialVersion, migrateFrom, migrationFlag>>

\* lines 72-77: caller c reads DBConnectionPromise
DBConnectionPromise(c) ==
  /\ IsNextCaller(c)
  /\ IF _dbConnectionPromise = 0
       THEN /\ nTasks < MaxTasks
            /\ _openDatabaseConnection(nTasks + 1)
            /\ _dbConnectionPromise' = nTasks + 1
            /\ holder' = [holder EXCEPT ![c] = nTasks + 1]
       ELSE /\ holder' = [holder EXCEPT ![c] = _dbConnectionPromise]
            /\ UNCHANGED <<_dbConnectionPromise, pc, promiseState, openCalls, nTasks>>
  /\ callPhase' = [callPhase EXCEPT ![c] = CallPhase]
  /\ UNCHANGED <<promiseValue, promiseError, pendingEx, connState, closeCalls,
                 isMigrated, initResult, versionRead, stmt, delivered,
                 observers, userVersion, objects, teardowns,
                 teardownPhases, initRuns, initialVersion, migrateFrom, migrationFlag>>

\* Sqlite.openConnection succeeded: the task enters the try block and
\* _dbInit calls connection.getSchemaVersion()
OpenOk(t) ==
  /\ pc[t] = "openConnection"
  /\ connState' = [connState EXCEPT ![t] = "open"]
  /\ pc' = [pc EXCEPT ![t] = "getSchemaVersion"]
  /\ initRuns' = initRuns + 1
  /\ UNCHANGED <<_dbConnectionPromise, nTasks, promiseState, promiseValue,
                 promiseError, pendingEx, closeCalls, isMigrated, initResult,
                 versionRead, stmt, delivered, observers, userVersion, objects,
                 holder, callPhase, teardowns, teardownPhases, openCalls,
                 initialVersion, migrateFrom, migrationFlag>>

\* Sqlite.openConnection failed: the yield at line 101 throws outside the try
OpenFail(t) ==
  /\ pc[t] = "openConnection"
  /\ pc' = [pc EXCEPT ![t] = "done"]
  /\ promiseState' = [promiseState EXCEPT ![t] = "rejected"]
  /\ promiseError' = [promiseError EXCEPT ![t] = "OpenError"]
  /\ UNCHANGED <<_dbConnectionPromise, nTasks, promiseValue, pendingEx,
                 connState, closeCalls, isMigrated, initResult, versionRead,
                 stmt, delivered, observers, userVersion, objects, holder,
                 callPhase, teardowns, teardownPhases, openCalls,
                 initRuns, initialVersion, migrateFrom, migrationFlag>>

\* lines 133-147: getSchemaVersion resolved; _dbInit dispatches on the version
ReadOk(t) ==
  /\ pc[t] = "getSchemaVersion"
  /\ versionRead' = [versionRead EXCEPT ![t] = userVersion]
  /\ CASE _dbInit(userVersion) = "create" ->
            /\ stmt' = [stmt EXCEPT ![t] =
                          [i \in Statements |-> IF i \in _dbCreate THEN "queued" ELSE "idle"]]
            /\ pc' = [pc EXCEPT ![t] = "dbCreate"]
            /\ UNCHANGED <<initResult, migrateFrom>>
       [] _dbInit(userVersion) = "migrate" ->
            /\ stmt' = [stmt EXCEPT ![t] =
                          [i \in Statements |-> IF i \in _dbMigrate THEN "queued" ELSE "idle"]]
            /\ pc' = [pc EXCEPT ![t] = "initDone"]
            /\ initResult' = [initResult EXCEPT ![t] = "true"]
            /\ migrateFrom' = [migrateFrom EXCEPT ![t] = userVersion]
       [] OTHER ->
            /\ pc' = [pc EXCEPT ![t] = "initDone"]
            /\ initResult' = [initResult EXCEPT ![t] = "false"]
            /\ UNCHANGED <<stmt, migrateFrom>>
  /\ UNCHANGED <<_dbConnectionPromise, nTasks, promiseState, promiseValue,
                 promiseError, pendingEx, connState, closeCalls, isMigrated,
                 delivered, observers, userVersion, objects, holder, callPhase,
                 teardowns, teardownPhases, openCalls, initRuns,
                 initialVersion, migrationFlag>>

\* getSchemaVersion rejected: _dbInit's promise rejects, the catch block runs
ReadFail(t) ==
  /\ pc[t] = "getSchemaVersion"
  /\ CatchClose(t, "VersionReadError")
  /\ UNCHANGED <<_dbConnectionPromise, nTasks, promiseValue, isMigrated,
                 initResult, versionRead, stmt, delivered, observers,
                 userVersion, objects, holder, callPhase, teardowns,
                 teardownPhases, openCalls, initRuns, initialVersion, migrateFrom, migrationFlag>>

\* ------------------------------------------------------- storage engine
\* the statement the connection's execution thread runs next
NextQueued(t, i) ==
  /\ stmt[t][i] = "queued"
  /\ \A j \in Statements : j < i => stmt[t][j] # "queued"

\* SQLite accepts the i-th statement: CREATE TABLE needs the table to be
\* absent, CREATE INDEX IF NOT EXISTS needs its table to exist
Accepts(i) ==
  IF IsTableStmt(i) THEN ObjectOf(i) \notin objects
  ELSE IF IsIndexStmt(i) THEN SCHEMA.indices[i - NumTables].table \in objects
  ELSE TRUE

\* the engine executes statement i of connection t
ExecOk(t, i) ==
  /\ connState[t] \in {"open", "closing", "closeFailed"}
  /\ NextQueued(t, i)
  /\ Accepts(i)
  /\ stmt' = [stmt EXCEPT ![t][i] = "ok"]
  /\ IF i = StampIdx
       THEN /\ userVersion' = DB_VERSION
            /\ UNCHANGED objects
       ELSE /\ objects' = objects \cup {ObjectOf(i)}
            /\ UNCHANGED userVersion
  /\ UNCHANGED <<_dbConnectionPromise, nTasks, pc, promiseState, promiseValue,
                 promiseError, pendingEx, connState, closeCalls, isMigrated,
                 initResult, versionRead, delivered, observers, holder,
                 callPhase, teardowns, teardownPhases, openCalls,
                 initRuns, initialVersion, migrateFrom, migrationFlag>>

\* the engine fails statement i of connection t (SQL or I/O error)
ExecErr(t, i) ==
  /\ connState[t] \in {"open", "closing", "closeFailed"}
  /\ NextQueued(t, i)
  /\ stmt' = [stmt EXCEPT ![t][i] = "err"]
  /\ UNCHANGED <<_dbConnectionPromise, nTasks, pc, promiseState, promiseValue,
                 promiseError, pendingEx, connState, closeCalls, isMigrated,
                 initResult, versionRead, delivered, observers, userVersion,
                 objects, holder, callPhase, teardowns, teardownPhases,
                 openCalls, initRuns, initialVersion, migrateFrom, migrationFlag>>

\* line 171 and lines 135-137, 107-110: the completion of the next statement
\* reaches the main thread and settles its promise; when that settles the
\* promised array, _dbInit's promise settles and the task resumes
Deliver(t) ==
  /\ delivered[t] + 1 \in Issued(stmt[t])
  /\ stmt[t][delivered[t] + 1] \in {"ok", "err", "cancelled"}
  /\ delivered' = [delivered EXCEPT ![t] = @ + 1]
  /\ IF pc[t] = "dbCreate"
       THEN CASE PromisedArray(stmt[t], delivered[t] + 1) = "resolved" ->
                   /\ pc' = [pc EXCEPT ![t] = "initDone"]
                   /\ initResult' = [initResult EXCEPT ![t] = "true"]
                   /\ UNCHANGED <<pendingEx, connState, closeCalls,
                                  promiseState, promiseError>>
              [] PromisedArray(stmt[t], delivered[t] + 1) = "rejected" ->
                   /\ CatchClose(t, "CreateError")
                   /\ UNCHANGED initResult
              [] OTHER ->
                   UNCHANGED <<pc, initResult, pendingEx, connState,
                               closeCalls, promiseState, promiseError>>
       ELSE UNCHANGED <<pc, initResult, pendingEx, connState, closeCalls,
                        promiseState, promiseError>>
  /\ UNCHANGED <<_dbConnectionPromise, nTasks, promiseValue, isMigrated,
                 versionRead, stmt, observers, userVersion, objects, holder,
                 callPhase, teardowns, teardownPhases, openCalls,
                 initRuns, initialVersion, migrateFrom, migrationFlag>>

\* lines 107, 115-120: _dbInit's promise resolved; the task stores the flag,
\* registers DBCloseCallback and resolves to the connection
TaskResume(t) ==
  /\ pc[t] = "initDone"
  /\ isMigrated' = [isMigrated EXCEPT ![t] = initResult[t]]
  /\ observers' = observers \cup {t}
  /\ promiseState' = [promiseState EXCEPT ![t] = "resolved"]
  /\ promiseValue' = [promiseValue EXCEPT ![t] = t]
  /\ pc' = [pc EXCEPT ![t] = "done"]
  /\ UNCHANGED <<_dbConnectionPromise, nTasks, promiseError, pendingEx,
                 connState, closeCalls, initResult, versionRead, stmt,
                 delivered, userVersion, objects, holder, callPhase,
                 teardowns, teardownPhases, openCalls, initRuns,
                 initialVersion, migrateFrom, migrationFlag>>

\* statements still queued when the connection closes are cancelled
CancelQueued(st) == [i \in Statements |-> IF st[i] = "queued" THEN "cancelled" ELSE st[i]]

\* connection.close() completed; line 111 rethrows ex when the task awaits it
CloseOk(t) ==
  /\ connState[t] = "closing"
  /\ connState' = [connState EXCEPT ![t] = "closed"]
  /\ stmt' = [stmt EXCEPT ![t] = CancelQueued(@)]
  /\ IF pc[t] = "close"
       THEN /\ pc' = [pc EXCEPT ![t] = "done"]
            /\ promiseState' = [promiseState EXCEPT ![t] = "rejected"]
            /\ promiseError' = [promiseError EXCEPT ![t] = pendingEx[t]]
       ELSE UNCHANGED <<pc, promiseState, promiseError>>
  /\ UNCHANGED <<_dbConnectionPromise, nTasks, promiseValue, pendingEx,
                 closeCalls, isMigrated, initResult, versionRead, delivered,
                 observers, userVersion, objects, holder, callPhase, teardowns,
                 teardownPhases, openCalls, initRuns, initialVersion, migrateFrom, migrationFlag>>

\* connection.close() rejected; the yield at line 110 throws inside the catch
CloseFail(t) ==
  /\ connState[t] = "closing"
  /\ connState' = [connState EXCEPT ![t] = "closeFailed"]
  /\ IF pc[t] = "close"
       THEN /\ pc' = [pc EXCEPT ![t] = "done"]
            /\ promiseState' = [promiseState EXCEPT ![t] = "rejected"]
            /\ promiseError' = [promiseError EXCEPT ![t] = "CloseError"]
       ELSE UNCHANGED <<pc, promiseState, promiseError>>
  /\ UNCHANGED <<_dbConnectionPromise, nTasks, promiseValue, pendingEx,
                 closeCalls, isMigrated, initResult, versionRead, stmt,
                 delivered, observers, userVersion, objects, holder, callPhase,
                 teardowns, teardownPhases, openCalls, initRuns,
                 initialVersion, migrateFrom, migrationFlag>>

\* a teardown handler that fetches DBConnectionPromise in order to close it
Teardown_acquires ==
  /\ teardowns < MaxTeardowns
  /\ teardowns' = teardowns + 1
  /\ teardownPhases' = teardownPhases \cup {AcquisitionState}
  /\ IF _dbConnectionPromise = 0
       THEN /\ nTasks < MaxTasks
            /\ _openDatabaseConnection(nTasks + 1)
            /\ _dbConnectionPromise' = nTasks + 1
            /\ UNCHANGED <<observers, closeCalls, connState>>
       ELSE /\ observers' = RemoveObserver(observers, observers)
            /\ closeCalls' = [t \in Tasks |-> IF t \in observers THEN closeCalls[t] + 1
                                              ELSE closeCalls[t]]
            /\ connState' = [t \in Tasks |-> IF t \in observers /\ connState[t] = "open"
                                             THEN "closing" ELSE connState[t]]
            /\ UNCHANGED <<_dbConnectionPromise, nTasks, pc, promiseState, openCalls>>
  /\ UNCHANGED <<promiseValue, promiseError, pendingEx, isMigrated, initResult,
                 versionRead, stmt, delivered, userVersion, objects, holder,
                 callPhase, initRuns, initialVersion, migrateFrom,
                 migrationFlag>>

\* lines 115-118: profile-change-teardown is notified; every registered
\* DBCloseCallback removes itself and closes its connection
Teardown ==
  /\ teardowns < MaxTeardowns
  /\ teardowns' = teardowns + 1
  /\ teardownPhases' = teardownPhases \cup {AcquisitionState}
  /\ observers' = RemoveObserver(observers, observers)
  /\ closeCalls' = [t \in Tasks |-> IF t \in observers THEN closeCalls[t] + 1
                                    ELSE closeCalls[t]]
  /\ connState' = [t \in Tasks |-> IF t \in observers /\ connState[t] = "open"
                                   THEN "closing" ELSE connState[t]]
  /\ UNCHANGED <<_dbConnectionPromise, nTasks, pc, promiseState, promiseValue,
                 promiseError, pendingEx, isMigrated, initResult, versionRead,
                 stmt, delivered, userVersion, objects, holder, callPhase,
                 openCalls, initRuns, initialVersion, migrateFrom, migrationFlag>>

\* TabDatabase never assigns _dbMigrationPromiseDeferred: the field is undefined
_dbMigrationPromiseDeferred == "undefined"

\* lines 84-86: the accessor returns this._dbMigrationPromiseDeferred.promise;
\* reading a property of undefined throws a TypeError
getDbMigrationPromise ==
  /\ migrationFlag' = IF _dbMigrationPromiseDeferred = "undefined"
                        THEN "TypeError"
                        ELSE _dbMigrationPromiseDeferred
  /\ UNCHANGED <<_dbConnectionPromise, nTasks, pc, promiseState, promiseValue,
                 promiseError, pendingEx, connState, closeCalls, isMigrated,
                 initResult, versionRead, stmt, delivered, observers,
                 userVersion, objects, holder, callPhase, teardowns,
                 teardownPhases, openCalls, initRuns, initialVersion,
                 migrateFrom>>

Next ==
  \/ \E c \in Callers : DBConnectionPromise(c)
  \/ \E t \in Tasks : OpenOk(t)
  \/ \E t \in Tasks : OpenFail(t)
  \/ \E t \in Tasks : ReadOk(t)
  \/ \E t \in Tasks : ReadFail(t)
  \/ \E t \in Tasks, i \in Statements : ExecOk(t, i)
  \/ \E t \in Tasks, i \in Statements : ExecErr(t, i)
  \/ \E t \in Tasks : Deliver(t)
  \/ \E t \in Tasks : TaskResume(t)
  \/ \E t \in Tasks : CloseOk(t)
  \/ \E t \in Tasks : CloseFail(t)
  \/ Teardown
  \/ getDbMigrationPromise

Spec == Init /\ [][Next]_vars

TypeOK ==
  /\ _dbConnectionPromise \in 0..MaxTasks
  /\ nTasks \in 0..MaxTasks
  /\ \A t \in Tasks :
       /\ pc[t] \in {"unspawned", "openConnection", "getSchemaVersion",
                     "dbCreate", "initDone", "close", "done"}
       /\ promiseState[t] \in {"none", "pending", "resolved", "rejected"}
       /\ connState[t] \in {"none", "open", "closing", "closed", "closeFailed"}
       /\ delivered[t] \in 0..NumStatements
  /\ observers \subseteq Tasks
  /\ userVersion \in 0..MaxVersion
  /\ objects \subseteq AllObjects

\* ------------------------------------------------------------ properties
\* what caller c's promise has settled to
Outcome(c) == <<promiseState[holder[c]], promiseValue[holder[c]],
                promiseError[holder[c]]>>

HasCalled(c) == holder[c] # 0

\* connections the storage engine holds open
OpenConnections == {t \in Tasks : connState[t] \in {"open", "closing", "closeFailed"}}

\* C1: however many reads of DBConnectionPromise happen, and whenever they
\* happen, the store is opened at most once, _dbInit runs at most once, all
\* readers hold the same promise and so the same connection or the same
\* error, and at most one connection is open
C1_SingleAcquisition ==
  /\ openCalls <= 1
  /\ initRuns <= 1
  /\ \A c1, c2 \in Callers :
       HasCalled(c1) /\ HasCalled(c2) =>
         /\ holder[c1] = holder[c2]
         /\ Outcome(c1) = Outcome(c2)
  /\ Cardinality(OpenConnections) <= 1

\* readers arrived before, during and after the open, and all hold the
\* one resolved connection
C1_Witness ==
  /\ \E c \in Callers : callPhase[c] = "Unstarted"
  /\ \E c \in Callers : callPhase[c] = "Pending"
  /\ \E c \in Callers : callPhase[c] = "Ready"
  /\ \A c \in Callers : HasCalled(c) /\ Outcome(c) = <<"resolved", 1, "none">>
  /\ openCalls = 1

\* C2: whenever the acquisition is Ready the stored schema version is
\* DB_VERSION, whatever version the store held initially
C2_ReadyImpliesTargetVersion ==
  AcquisitionState = "Ready" => userVersion = DB_VERSION

\* C3: a promise resolves to the connection only after the version was read
\* and every statement issued on that connection, the version stamp
\* included, has completed successfully and _dbInit has finished
C3_InitBeforeExposure ==
  \A t \in Tasks :
    promiseState[t] = "resolved" =>
      /\ versionRead[t] # NoVersion
      /\ initResult[t] # "unset"
      /\ \A i \in Issued(stmt[t]) : i <= delivered[t] /\ stmt[t][i] = "ok"

\* a connection created from version 0 has been handed to a caller
C3_Witness ==
  \E c \in Callers :
    /\ HasCalled(c)
    /\ promiseState[holder[c]] = "resolved"
    /\ versionRead[holder[c]] = 0
    /\ Issued(stmt[holder[c]]) = Statements

\* C4: in _dbCreate the version is stamped only after every table and index
\* statement has succeeded, and when a creation statement fails the stored
\* version remains 0
C4_StampOnlyAfterCreation ==
  \A t \in Tasks :
    /\ stmt[t][StampIdx] = "ok" =>
         \A i \in Statements : i # StampIdx => stmt[t][i] = "ok"
    /\ (versionRead[t] = 0 /\ \E i \in Statements : i # StampIdx /\ stmt[t][i] = "err")
         => userVersion = 0

\* C5: when a step after a successful open fails, close() is called once and
\* awaited before the promise rejects (the connection is closed unless the
\* close itself failed), every reader gets the same error, no observer is
\* registered and the promise never carries the connection
C5_FailureClosesBeforeRejecting ==
  /\ \A t \in Tasks :
       /\ pc[t] = "close" => promiseState[t] = "pending" /\ closeCalls[t] = 1
       /\ (promiseState[t] = "rejected" /\ promiseError[t] # "OpenError") =>
            /\ closeCalls[t] = 1
            /\ connState[t] \in {"closed", "closeFailed"}
            /\ promiseError[t] # "CloseError" => connState[t] = "closed"
            /\ promiseValue[t] = 0
            /\ t \notin observers
            /\ pc[t] = "done"
  /\ \A c1, c2 \in Callers :
       HasCalled(c1) /\ HasCalled(c2) /\ promiseState[holder[c1]] = "rejected"
         => Outcome(c1) = Outcome(c2)

\* two readers hold the promise rejected after a failed creation, and the
\* connection is closed
C5_Witness ==
  \E c1, c2 \in Callers :
    /\ c1 # c2
    /\ HasCalled(c1) /\ HasCalled(c2)
    /\ Outcome(c1) = <<"rejected", 0, "CreateError">>
    /\ connState[holder[c1]] = "closed"

\* C6: close() is never called twice on a connection, whatever the calls,
\* failures and repeated notifications, and after a notification that
\* follows a successful acquisition close() has been called on the
\* connection
C6_ClosedExactlyOnce ==
  /\ \A t \in Tasks : closeCalls[t] <= 1
  /\ ("Ready" \in teardownPhases) =>
        /\ closeCalls[_dbConnectionPromise] = 1
        /\ connState[_dbConnectionPromise] \in {"closing", "closed", "closeFailed"}

\* the notification fired twice after a successful acquisition and the
\* connection is closed
C6_Witness ==
  /\ teardowns = 2
  /\ teardownPhases = {"Ready"}
  /\ connState[_dbConnectionPromise] = "closed"
  /\ closeCalls[_dbConnectionPromise] = 1

\* C7: a notification that fires while the acquisition is Pending never
\* closes the connection during initialisation, and once the acquisition
\* has settled no connection is left open
C7_TeardownWaitsForPending ==
  /\ \A t \in Tasks :
       pc[t] \in {"getSchemaVersion", "dbCreate", "initDone"} => closeCalls[t] = 0
  /\ ("Pending" \in teardownPhases /\ AcquisitionState \in {"Ready", "Failed"}) =>
       \A t \in Tasks : connState[t] # "open"

\* C8: a read of DBConnectionPromise made after teardown closed the
\* successfully acquired connection yields an error or an open connection
C8_AcquireAfterTeardown ==
  \A c \in Callers :
    callPhase[c] = "TornDown" =>
      \/ promiseState[holder[c]] = "rejected"
      \/ (promiseState[holder[c]] = "resolved" /\ connState[promiseValue[holder[c]]] = "open")

\* C9: an acquisition that read version 0 and resolved leaves every catalog
\* table and index in the store, the version at DB_VERSION and the
\* migration flag true
C9_FreshStoreCreated ==
  \A t \in Tasks :
    (versionRead[t] = 0 /\ promiseState[t] = "resolved") =>
      /\ TableNames \subseteq objects
      /\ IndexNames \subseteq objects
      /\ Cardinality(TableNames) = 3
      /\ Cardinality(IndexNames) = 4
      /\ userVersion = DB_VERSION
      /\ DB_VERSION = 1
      /\ isMigrated[t] = "true"

\* a store that started empty at version 0 has been acquired
C9_Witness ==
  /\ initialVersion = 0
  /\ AcquisitionState = "Ready"
  /\ \A i \in Statements : stmt[_dbConnectionPromise][i] = "ok"
  /\ isMigrated[_dbConnectionPromise] = "true"

\* C10: an acquisition that read DB_VERSION issues no statement at all (no
\* creation, no migration, no version write), leaves the store as it was
\* and, once finished, has resolved with the migration flag false
C10_CurrentVersionIsNoop ==
  \A t \in Tasks :
    versionRead[t] = DB_VERSION =>
      /\ Issued(stmt[t]) = {}
      /\ userVersion = initialVersion
      /\ objects = AllObjects
      /\ pc[t] \in {"initDone", "done"}
      /\ pc[t] = "initDone" => initResult[t] = "false"
      /\ pc[t] = "done" => promiseState[t] = "resolved" /\ isMigrated[t] = "false"

\* a store already at DB_VERSION has been acquired
C10_Witness ==
  /\ initialVersion = DB_VERSION
  /\ AcquisitionState = "Ready"
  /\ versionRead[_dbConnectionPromise] = DB_VERSION
  /\ isMigrated[_dbConnectionPromise] = "false"

\* C12: the acquisition state only moves Unstarted -> Pending -> Ready or
\* Failed and then stays; the cached promise is never reset or replaced, and
\* after a failure a read returns the same rejected promise without
\* another open
C12_AcquisitionTerminal ==
  [][ /\ AcquisitionState = "Unstarted" => AcquisitionState' \in {"Unstarted", "Pending"}
      /\ AcquisitionState = "Pending" => AcquisitionState' \in {"Pending", "Ready", "Failed"}
      /\ AcquisitionState = "Ready" => AcquisitionState' = "Ready"
      /\ AcquisitionState = "Failed" => AcquisitionState' = "Failed"
      /\ _dbConnectionPromise # 0 => _dbConnectionPromise' = _dbConnectionPromise
      /\ AcquisitionState = "Failed" =>
           /\ openCalls' = openCalls
           /\ promiseError'[_dbConnectionPromise] = promiseError[_dbConnectionPromise]
           /\ \A c \in Callers :
                holder'[c] # holder[c] => holder'[c] = _dbConnectionPromise
    ]_vars

\* a read made after the acquisition failed got the rejected promise, and
\* the store was opened once
C12_Witness ==
  \E c \in Callers :
    /\ callPhase[c] = "Failed"
    /\ Outcome(c)[1] = "rejected"
    /\ holder[c] = 1
    /\ openCalls = 1

\* C13: once the acquisition is Ready, what getDbMigrationPromise() yields
\* is a boolean, true exactly when _dbInit created or migrated the schema
C13_MigrationAccessor ==
  (AcquisitionState = "Ready" /\ migrationFlag # "none") =>
    /\ migrationFlag \in {"true", "false"}
    /\ migrationFlag = "true" <=> versionRead[_dbConnectionPromise] # DB_VERSION

\* C14: a notification that fires while no acquisition was ever started
\* opens nothing, closes nothing, raises nothing and leaves the
\* acquisition Unstarted
C14_TeardownBeforeAcquireIsNoop ==
  [][ (teardowns' # teardowns /\ _dbConnectionPromise = 0) =>
        /\ _dbConnectionPromise' = 0
        /\ UNCHANGED <<nTasks, pc, promiseState, promiseError, connState,
                       closeCalls, observers, openCalls, initRuns,
                       userVersion, objects>>
    ]_vars

\* the notification fired twice before any read of DBConnectionPromise
C14_Witness ==
  /\ teardowns = 2
  /\ teardownPhases = {"Unstarted"}
  /\ AcquisitionState = "Unstarted"
  /\ openCalls = 0

\* C15: _dbInit takes one branch, chosen by the stored version alone:
\* _dbCreate (all statements issued) exactly for version 0, nothing for
\* DB_VERSION, _dbMigrate with the version otherwise; its result is false
\* exactly for DB_VERSION and true in the other two cases
C15_InitDispatch ==
  \A t \in Tasks :
    versionRead[t] # NoVersion =>
      /\ versionRead[t] = 0 =>
           /\ Issued(stmt[t]) = Statements
           /\ migrateFrom[t] = NoVersion
           /\ initResult[t] \in {"unset", "true"}
           /\ pc[t] = "initDone" => initResult[t] = "true"
      /\ versionRead[t] = DB_VERSION =>
           /\ Issued(stmt[t]) = {}
           /\ migrateFrom[t] = NoVersion
           /\ initResult[t] = "false"
      /\ versionRead[t] \notin {0, DB_VERSION} =>
           /\ Issued(stmt[t]) = {}
           /\ migrateFrom[t] = versionRead[t]
           /\ initResult[t] = "true"

\* a store at a version other than 0 and DB_VERSION went through
\* _dbMigrate and was acquired with the flag true
C15_Witness ==
  /\ AcquisitionState = "Ready"
  /\ versionRead[_dbConnectionPromise] \notin {0, DB_VERSION}
  /\ migrateFrom[_dbConnectionPromise] = versionRead[_dbConnectionPromise]
  /\ isMigrated[_dbConnectionPromise] = "true"

\* C16 as claimed: with DB_VERSION 1 _dbMigrate is never called, and a call
\* would have 0 < fromVersion < DB_VERSION
C16_MigratorNeverInvoked ==
  \A t \in Tasks :
    /\ migrateFrom[t] = NoVersion
    /\ migrateFrom[t] # NoVersion =>
         (0 < migrateFrom[t] /\ migrateFrom[t] < DB_VERSION)

\* C16 as amended: _dbMigrate is called exactly when the stored version is
\* neither 0 nor DB_VERSION, so with DB_VERSION 1 only for stored versions
\* above DB_VERSION, and its fromVersion is the stored version
C16_MigratorOnlyForOtherVersions ==
  \A t \in Tasks :
    /\ migrateFrom[t] # NoVersion =>
         /\ migrateFrom[t] = versionRead[t]
         /\ migrateFrom[t] # 0
         /\ migrateFrom[t] # DB_VERSION
         /\ migrateFrom[t] > DB_VERSION
    /\ (versionRead[t] # NoVersion /\ versionRead[t] \notin {0, DB_VERSION}) =>
         migrateFrom[t] = versionRead[t]

\* _dbMigrate has been called with a version above DB_VERSION
C16_Witness ==
  \E t \in Tasks : migrateFrom[t] # NoVersion /\ migrateFrom[t] = DB_VERSION + 1

\* C17: when getSchemaVersion fails, no statement is issued, the store is
\* not written, close() is called at once and awaited, and the task ends
\* with the promise rejected
C17_VersionReadFailureFailsFast ==
  \A t \in Tasks :
    pendingEx[t] = "VersionReadError" =>
      /\ versionRead[t] = NoVersion
      /\ Issued(stmt[t]) = {}
      /\ migrateFrom[t] = NoVersion
      /\ userVersion = initialVersion
      /\ objects \in InitialObjects(initialVersion)
      /\ closeCalls[t] = 1
      /\ t \notin observers
      /\ pc[t] \in {"close", "done"}
      /\ pc[t] = "close" => connState[t] = "closing" /\ promiseState[t] = "pending"
      /\ pc[t] = "done" =>
           /\ promiseState[t] = "rejected"
           /\ connState[t] \in {"closed", "closeFailed"}
           /\ connState[t] = "closed" => promiseError[t] = "VersionReadError"

\* the version read failed, the connection is closed and the acquisition
\* is Failed with that error
C17_Witness ==
  /\ AcquisitionState = "Failed"
  /\ promiseError[_dbConnectionPromise] = "VersionReadError"
  /\ connState[_dbConnectionPromise] = "closed"

\* C18: while the failure path of a failed creation waits for close(), no
\* statement issued by _dbCreate is still unsettled
C18_NoStatementInFlightAtClose ==
  \A t \in Tasks :
    (pendingEx[t] = "CreateError" /\ pc[t] = "close") =>
      \A i \in Issued(stmt[t]) : i <= delivered[t]

\* C19: a promise rejected after _dbInit failed carries _dbInit's failure
\* cause, whether close() succeeded or not
C19_OriginalErrorSurfaced ==
  \A t \in Tasks :
    (promiseState[t] = "rejected" /\ pendingEx[t] # "none") =>
      promiseError[t] = pendingEx[t]

====
